---- MODULE Spec2Model ----
(***************************************************************************)
(* EnhancedContextCache (app/lib/.server/llm/enhanced-context-cache-       *)
(* service.ts): the in-process context cache in front of the LLM calls.    *)
(*                                                                         *)
(* Times are milliseconds, as Date.now() returns them.  Every operation    *)
(* of the cache runs to completion on the event loop; the clock is read    *)
(* once per operation (the operations are far shorter than a millisecond), *)
(* and advances between operations by the Tick action.                     *)
(*                                                                         *)
(* An optional value (a `?:` field, an omitted argument, a null result) is *)
(* a sequence of length at most one: Undefined or Some(v).                 *)
(***************************************************************************)
EXTENDS Integers, Sequences, FiniteSets, TLC

VARIABLES
    cache,                    \* Map<string, EnhancedContextCacheEntry>, in insertion order
    maxSize,
    defaultExpiryMs,
    hits,
    misses,
    compressionEnabled,
    adaptiveExpiryEnabled,
    memoryMonitoringEnabled,
    autoCompressionThreshold,
    now,                      \* Date.now()
    nextSweep,                \* the time the setInterval callback is next due
    born,                     \* history: for each stored key, when, with which value and window it was set
    last,                     \* history: the last operation and its result
    configCalls,              \* history: the number of calls the management endpoint has made
    keyLog                    \* history: the calls of generateCacheKey, each with its result

vars == <<cache, maxSize, defaultExpiryMs, hits, misses, compressionEnabled,
          adaptiveExpiryEnabled, memoryMonitoringEnabled, autoCompressionThreshold,
          now, nextSweep, born, last, configCalls, keyLog>>

config == <<maxSize, defaultExpiryMs, compressionEnabled, adaptiveExpiryEnabled,
            memoryMonitoringEnabled, autoCompressionThreshold>>

-----------------------------------------------------------------------------
(* Program constants *)

ENHANCED_CACHE_EXPIRY_MS == 30 * 60 * 1000

MAX_ENHANCED_CACHE_SIZE == 200

DEFAULT_COMPRESSION_THRESHOLD == 5 * 1024

MinCompressionThreshold == 1024

AccessFactorCap == 10

-----------------------------------------------------------------------------
(* Bounds of the model *)

MaxTicks == 1

MaxGets == 2

MaxConfigCalls == 1

AdaptiveMaxSteps == 5

AdaptiveMaxGets == 6

MaxMessageIds == 4

FrequentMaxGets == 11

\* the clock's step: one minute more than the default window of an entry
TickMs == 31 * 60 * 1000

\* the finer step of the clock under SpecAdaptive: a third of the default window
StepMs == 10 * 60 * 1000

-----------------------------------------------------------------------------
(* Optional values *)

Undefined == <<>>

Some(v) == <<v>>

IsDefined(o) == o # <<>>

Max(a, b) == IF a >= b THEN a ELSE b

Min(a, b) == IF a <= b THEN a ELSE b

\* JavaScript truthiness of an optional number / string / boolean
TruthyNumber(o) == o # <<>> /\ o[1] # 0

TruthyString(o) == o # <<>> /\ o[1] # ""

TruthyBool(o) == o # <<>> /\ o[1]

-----------------------------------------------------------------------------
(* File contents.  A long content is named by a token; BufferByteLength    *)
(* gives the UTF-8 length of the string the token stands for and           *)
(* DeflatedContentLength the length pako.deflate (level 9) makes of it.    *)

BufferByteLength(content) ==
    CASE content = "X.repeat(20000)" -> 20000
      [] content = "random(20000)"   -> 20000
      [] content = "noisy(20000)"    -> 20000
      [] content = "y.repeat(3000)"  -> 3000
      [] OTHER                       -> Len(content)

DeflatedContentLength(content) ==
    CASE content = "X.repeat(20000)" -> 40
      [] content = "random(20000)"   -> 20010
      [] content = "noisy(20000)"    -> 19000
      [] content = "y.repeat(3000)"  -> 25
      [] OTHER                       -> Len(content)

RECURSIVE SumFn(_, _)
SumFn(f, S) ==
    IF S = {} THEN 0
    ELSE LET p == CHOOSE q \in S : TRUE
         IN  f[p] + SumFn(f, S \ {p})

\* the sum of the numbers an object or array f holds
Sum(f) == SumFn(f, DOMAIN f)

\* calculateSize(contextFiles, summary)
calculateSize(contextFiles, summary) ==
    Sum([path \in DOMAIN contextFiles |->
            Len(path) + BufferByteLength(contextFiles[path])])
      + (IF TruthyString(summary) THEN Len(summary[1]) ELSE 0)

-----------------------------------------------------------------------------
(* Serialisation and compression: JSON.stringify / JSON.parse,             *)
(* pako.deflate / pako.inflate, base64.  Each conversion wraps its input   *)
(* in a tagged value; the inverse succeeds only on a value with the tag.   *)

JSONstringify(obj) == [type |-> "json", text |-> obj]

JSONparses(str) == str.type = "json"

JSONparse(str) == str.text

pakoDeflate(data) ==
    [type |-> "deflate", data |-> data,
     length |-> 20 + Sum([path \in DOMAIN data.text.contextFiles |->
                             Len(path) + DeflatedContentLength(data.text.contextFiles[path])])
                   + Len(data.text.summary)]

pakoInflates(buf) == buf.type = "deflate"

pakoInflate(buf) == buf.data

toBase64(bytes) == [type |-> "string", bytes |-> bytes]

IsString(v) == v.type = "string"

fromBase64(str) == str.bytes

-----------------------------------------------------------------------------
(* generateCacheKey().  The strings it normalises are sequences of          *)
(* characters; CodeUnit is the UTF-16 code unit Array.prototype.sort        *)
(* compares by.                                                             *)

CodeUnit(c) ==
    CASE c = " " -> 32
      [] c = "A" -> 65
      [] c = "B" -> 66
      [] c = "a" -> 97
      [] c = "b" -> 98
      [] c = "m" -> 109
      [] c = "n" -> 110
      [] c = "p" -> 112
      [] OTHER   -> 0

ToLowerChar(c) ==
    CASE c = "A" -> "a"
      [] c = "B" -> "b"
      [] OTHER   -> c

\* String.prototype.toLowerCase
toLowerCase(str) == [i \in 1..Len(str) |-> ToLowerChar(str[i])]

RECURSIVE trimStart(_)
trimStart(str) ==
    IF str # <<>> /\ Head(str) = " " THEN trimStart(Tail(str)) ELSE str

RECURSIVE trimEnd(_)
trimEnd(str) ==
    IF str # <<>> /\ str[Len(str)] = " " THEN trimEnd(SubSeq(str, 1, Len(str) - 1)) ELSE str

\* String.prototype.trim
trim(str) == trimEnd(trimStart(str))

\* a < b as sort() orders two strings: by code unit, a proper prefix first
RECURSIVE StringLess(_, _)
StringLess(a, b) ==
    IF b = <<>> THEN FALSE
    ELSE IF a = <<>> THEN TRUE
    ELSE IF CodeUnit(Head(a)) # CodeUnit(Head(b)) THEN CodeUnit(Head(a)) < CodeUnit(Head(b))
    ELSE StringLess(Tail(a), Tail(b))

RECURSIVE InsertSorted(_, _)
InsertSorted(sorted, str) ==
    IF sorted = <<>> THEN <<str>>
    ELSE IF StringLess(str, Head(sorted)) THEN <<str>> \o sorted
    ELSE <<Head(sorted)>> \o InsertSorted(Tail(sorted), str)

\* a sort() that leaves the array in the order it came
sortSkipped(strs) == strs

\* Array.prototype.sort without a comparator
RECURSIVE sort(_)
sort(strs) ==
    IF strs = <<>> THEN <<>>
    ELSE InsertSorted(sort(SubSeq(strs, 1, Len(strs) - 1)), strs[Len(strs)])

\* the filter of both arrays: s && s.trim().length > 0
NonBlank(str) == str # <<>> /\ Len(trim(str)) > 0

\* Array.prototype.slice(-n)
sliceLast(arr, n) == SubSeq(arr, Max(1, Len(arr) - n + 1), Len(arr))

MapTrim(arr) == [i \in 1..Len(arr) |-> trim(arr[i])]

MapTrimLower(arr) == [i \in 1..Len(arr) |-> toLowerCase(trim(arr[i]))]

\* generateCacheKey(params)
generateCacheKey(params) ==
    LET normalizedMessageIds == sliceLast(MapTrim(SelectSeq(params.messageIds, NonBlank)), 3)
        normalizedFilePaths  == sort(MapTrimLower(SelectSeq(params.filePaths, NonBlank)))
        cacheKey == [promptId   |-> IF IsDefined(params.promptId) /\ trim(params.promptId[1]) # <<>>
                                    THEN Some(trim(params.promptId[1])) ELSE Undefined,
                     messageIds |-> normalizedMessageIds,
                     filePaths  |-> normalizedFilePaths]
    IN  JSONstringify(cacheKey)

-----------------------------------------------------------------------------
(* The Map *)

MapKeys(m) == {m[i].key : i \in 1..Len(m)}

MapHas(m, k) == k \in MapKeys(m)

MapIndex(m, k) == CHOOSE i \in 1..Len(m) : m[i].key = k

MapGet(m, k) == m[MapIndex(m, k)].entry

MapSet(m, k, e) ==
    IF MapHas(m, k)
    THEN [m EXCEPT ![MapIndex(m, k)] = [key |-> k, entry |-> e]]
    ELSE Append(m, [key |-> k, entry |-> e])

NotKey(kv, k) == kv.key # k

MapDelete(m, k) == SelectSeq(m, LAMBDA kv : NotKey(kv, k))

-----------------------------------------------------------------------------
(* Private helpers of the cache *)

\* an expiry test of cleanup() that finds no entry expired
NotExpiredEver(kv, t) == TRUE

NotExpired(kv, t) == ~(t > kv.entry.expiresAt)

\* a cleanup() that also deletes the entries that expire at this very millisecond
cleanupInclusive(m, t) == SelectSeq(m, LAMBDA kv : t < kv.entry.expiresAt)

\* cleanup(): delete every entry with now > expiresAt
cleanup(m, t) == SelectSeq(m, LAMBDA kv : NotExpired(kv, t))

\* a getOldestEntry() that takes the first key of the map, whatever its timestamp
getFirstEntry(m) == IF Len(m) = 0 THEN Undefined ELSE Some(m[1].key)

\* getOldestEntry(): the first key, in iteration order, with the smallest timestamp
RECURSIVE OldestScan(_, _, _, _)
OldestScan(m, i, oldestKey, oldestTime) ==
    IF i > Len(m) THEN oldestKey
    ELSE IF oldestKey = Undefined \/ m[i].entry.timestamp < oldestTime[1]
         THEN OldestScan(m, i + 1, Some(m[i].key), Some(m[i].entry.timestamp))
         ELSE OldestScan(m, i + 1, oldestKey, oldestTime)

getOldestEntry(m) ==
    IF Len(m) = 0 THEN Undefined ELSE OldestScan(m, 1, Undefined, Undefined)

\* a compressEntry() without the test of the compression ratio
compressEntryUnguarded(entry, enabled, threshold) ==
    IF ~enabled \/ TruthyBool(entry.compressed) THEN entry
    ELSE IF entry.size <= threshold THEN entry
    ELSE IF DOMAIN entry.contextFiles = {} THEN entry
    ELSE
      LET originalSize   == entry.size
          compressedData == pakoDeflate(JSONstringify(
                                [contextFiles |-> entry.contextFiles,
                                 summary |-> IF TruthyString(entry.summary)
                                             THEN entry.summary[1] ELSE ""]))
      IN  [entry EXCEPT
              !.contextFiles = [_compressed |-> Some(toBase64(compressedData)),
                                _originalSize |-> Some(originalSize),
                                _compressionRatio |->
                                    ((originalSize - compressedData.length) * 100) \div originalSize],
              !.compressed = Some(TRUE),
              !.originalSize = Some(originalSize),
              !.size = compressedData.length]

\* compressEntry(entry)
compressEntry(entry, enabled, threshold) ==
    IF ~enabled \/ TruthyBool(entry.compressed) THEN entry
    ELSE IF entry.size <= threshold THEN entry
    ELSE IF DOMAIN entry.contextFiles = {} THEN entry
    ELSE
      LET originalSize   == entry.size
          dataToCompress == [contextFiles |-> entry.contextFiles,
                             summary |-> IF TruthyString(entry.summary)
                                         THEN entry.summary[1] ELSE ""]
          serializedData == JSONstringify(dataToCompress)
          compressedData == pakoDeflate(serializedData)
          compressedSize == compressedData.length
      IN  \* compressionRatio = (1 - compressedSize/originalSize) * 100 <= 0
          IF originalSize = 0 \/ compressedSize >= originalSize THEN entry
          ELSE [entry EXCEPT
                  !.contextFiles = [_compressed |-> Some(toBase64(compressedData)),
                                    _originalSize |-> Some(originalSize),
                                    _compressionRatio |->
                                        ((originalSize - compressedSize) * 100) \div originalSize],
                  !.compressed = Some(TRUE),
                  !.originalSize = Some(originalSize),
                  !.size = compressedSize]

\* The checks of decompressEntry that throw into its catch block
Decompresses(entry) ==
    /\ "_compressed" \in DOMAIN entry.contextFiles
    /\ IsDefined(entry.contextFiles._compressed)
    /\ IsString(entry.contextFiles._compressed[1])
    /\ TruthyNumber(entry.contextFiles._originalSize)
    /\ pakoInflates(fromBase64(entry.contextFiles._compressed[1]))
    /\ JSONparses(pakoInflate(fromBase64(entry.contextFiles._compressed[1])))
    /\ "contextFiles" \in DOMAIN JSONparse(pakoInflate(fromBase64(entry.contextFiles._compressed[1])))

\* a decompressEntry() that clears the flag and leaves the wrapper in contextFiles
decompressEntryKeepsWrapper(entry) ==
    IF ~TruthyBool(entry.compressed) THEN entry
    ELSE IF ~Decompresses(entry) THEN entry
    ELSE [entry EXCEPT !.compressed = Some(FALSE),
                       !.size = entry.contextFiles._originalSize[1]]

\* decompressEntry(entry): on any failure the catch block returns the entry as it is
decompressEntry(entry) ==
    IF ~TruthyBool(entry.compressed) THEN entry
    ELSE IF ~Decompresses(entry) THEN entry
    ELSE
      LET parsedData == JSONparse(pakoInflate(fromBase64(entry.contextFiles._compressed[1])))
      IN  [entry EXCEPT
             !.contextFiles = parsedData.contextFiles,
             !.summary = IF "summary" \in DOMAIN parsedData
                         THEN Some(parsedData.summary) ELSE Undefined,
             !.compressed = Some(FALSE),
             !.size = entry.contextFiles._originalSize[1]]

\* an adjustExpiry() that assigns the new time without Math.max
adjustExpiryOverwrite(entry, expiryMs, t) ==
    [entry EXCEPT !.expiresAt =
        t + (expiryMs * Min(entry.accessCount, AccessFactorCap)) \div AccessFactorCap]

\* an adjustExpiry() that forgets to divide the access count by ten
adjustExpiryWholeFactor(entry, expiryMs, t) ==
    [entry EXCEPT !.expiresAt =
        Max(entry.expiresAt, t + expiryMs * Min(entry.accessCount, AccessFactorCap))]

\* an adjustExpiry() without the cap of the access factor
adjustExpiryUncapped(entry, expiryMs, t) ==
    [entry EXCEPT !.expiresAt =
        Max(entry.expiresAt, t + (expiryMs * entry.accessCount) \div AccessFactorCap)]

\* adjustExpiry(key, entry)
adjustExpiry(entry, expiryMs, t) ==
    LET accessFactorTimes10 == Min(entry.accessCount, AccessFactorCap)
        additionalTime      == (expiryMs * accessFactorTimes10) \div AccessFactorCap
    IN  [entry EXCEPT !.expiresAt = Max(entry.expiresAt, t + additionalTime)]

-----------------------------------------------------------------------------
(* getStats() *)

CountsAsCompressed(entry) == TruthyBool(entry.compressed) /\ TruthyNumber(entry.originalSize)

OriginalSizeOf(entry) == IF CountsAsCompressed(entry) THEN entry.originalSize[1] ELSE 0

CompressedSizeOf(entry) == IF CountsAsCompressed(entry) THEN entry.size ELSE 0

OneIfCompressed(entry) == IF CountsAsCompressed(entry) THEN 1 ELSE 0

AccessCountOf(entry) == entry.accessCount

TotalAccessTimeOf(entry) == entry.totalAccessTime

\* getStats() when the map is m
StatsOf(m) ==
    [size                     |-> Len(m),
     maxSize                  |-> maxSize,
     defaultExpiryMs          |-> defaultExpiryMs,
     hits                     |-> hits,
     misses                   |-> misses,
     compressionEnabled       |-> compressionEnabled,
     adaptiveExpiryEnabled    |-> adaptiveExpiryEnabled,
     totalAccessTime          |-> Sum([i \in 1..Len(m) |-> TotalAccessTimeOf(m[i].entry)]),
     accessCount              |-> Sum([i \in 1..Len(m) |-> AccessCountOf(m[i].entry)]),
     memoryMonitoringEnabled  |-> memoryMonitoringEnabled,
     totalOriginalSize        |-> Sum([i \in 1..Len(m) |-> OriginalSizeOf(m[i].entry)]),
     totalCompressedSize      |-> Sum([i \in 1..Len(m) |-> CompressedSizeOf(m[i].entry)]),
     compressedEntries        |-> Sum([i \in 1..Len(m) |-> OneIfCompressed(m[i].entry)]),
     autoCompressionThreshold |-> autoCompressionThreshold,
     contextFiles             |-> UNION {DOMAIN m[i].entry.contextFiles : i \in 1..Len(m)}]

getStats == StatsOf(cache)

\* a test of the ratio that finds every ratio low
CompressionRatioIgnored(stats) == TRUE

\* stats.compressionRatio < 0.1, where compressionRatio is
\* totalOriginalSize > 0 ? 1 - totalCompressedSize / totalOriginalSize : 0
CompressionRatioIsLow(stats) ==
    IF stats.totalOriginalSize > 0
    THEN 10 * (stats.totalOriginalSize - stats.totalCompressedSize) < stats.totalOriginalSize
    ELSE TRUE

-----------------------------------------------------------------------------------------------------------------------------------------------------
(* History bookkeeping *)

\* branch names the path the operation took through its code
Op(name, key, branch, returned) ==
    [op |-> name, key |-> key, branch |-> branch, returned |-> returned, victim |-> Undefined,
     args |-> Undefined]

\* born, kept for the keys of the map m only
BornOf(m, b) == [k \in MapKeys(m) |-> b[k]]

-----------------------------------------------------------------------------
(* Initial state: the singleton right after its constructor *)

NoOp == Op("new", "-", "-", Undefined)

Init ==
    /\ cache = <<>>
    /\ maxSize = MAX_ENHANCED_CACHE_SIZE
    /\ defaultExpiryMs = ENHANCED_CACHE_EXPIRY_MS
    /\ hits = 0
    /\ misses = 0
    /\ compressionEnabled = TRUE
    /\ adaptiveExpiryEnabled = TRUE
    /\ memoryMonitoringEnabled = TRUE
    /\ autoCompressionThreshold = DEFAULT_COMPRESSION_THRESHOLD
    /\ now = 0
    /\ nextSweep = ENHANCED_CACHE_EXPIRY_MS
    /\ born = <<>>
    /\ last = NoOp
    /\ configCalls = 0
    /\ keyLog = <<>>

-----
(* Operations *)

NewEntry(value, expiry, t) ==
    [timestamp       |-> t,
     contextFiles    |-> value.contextFiles,
     summary         |-> value.summary,
     expiresAt       |-> t + expiry,
     size            |-> calculateSize(value.contextFiles, value.summary),
     compressed      |-> Undefined,
     originalSize    |-> Undefined,
     accessCount     |-> 0,
     lastAccessTime  |-> t,
     totalAccessTime |-> 0]

\* a get() that compares the wrong way round
ExpiredAtGetFlipped(entry, t) == t < entry.expiresAt

\* the expiry test of get(): Date.now() > entry.expiresAt
ExpiredAtGet(entry, t) == t > entry.expiresAt

\* what get(key) returns when the map is m and the time t
GetReturns(m, t, key) ==
    IF ~MapHas(m, key) THEN Undefined
    ELSE IF ExpiredAtGet(MapGet(m, key), t) THEN Undefined
    ELSE LET entry == MapGet(m, key)
             decompressedEntry == IF TruthyBool(entry.compressed)
                                  THEN decompressEntry(entry) ELSE entry
         IN  Some([contextFiles |-> decompressedEntry.contextFiles,
                   summary |-> decompressedEntry.summary])

\* the entry that the head of set() evicts after its sweep, if it evicts one
Victim(m, t, capacity) ==
    LET swept     == cleanup(m, t)
        oldestKey == getOldestEntry(swept)
    IN  IF Len(swept) >= capacity /\ IsDefined(oldestKey)
        THEN Some([key |-> oldestKey[1], timestamp |-> MapGet(swept, oldestKey[1]).timestamp])
        ELSE Undefined

\* the map after the sweep and the capacity eviction at the head of set()
MakeRoom(m, t, capacity) ==
    LET swept == cleanup(m, t)
    IN  IF IsDefined(Victim(m, t, capacity))
        THEN MapDelete(swept, Victim(m, t, capacity)[1].key)
        ELSE swept

\* set(key, value, expiryMs?)
Set(key, value, expiryMs) ==
    LET room   == MakeRoom(cache, now, maxSize)
        victim == Victim(cache, now, maxSize)
        expiry == IF TruthyNumber(expiryMs) THEN expiryMs[1] ELSE defaultExpiryMs
        entry  == NewEntry(value, expiry, now)
        stored == IF compressionEnabled /\ entry.size > autoCompressionThreshold
                  THEN compressEntry(entry, compressionEnabled, autoCompressionThreshold)
                  ELSE entry
    IN  /\ cache' = MapSet(room, key, stored)
        /\ born' = [k \in MapKeys(room) \cup {key} |->
                       IF k = key
                       THEN [at |-> now, value |-> value,
                             window |-> IF TruthyNumber(expiryMs) THEN Undefined
                                        ELSE Some(defaultExpiryMs)]
                       ELSE born[k]]
        /\ last' = [Op("set", key, IF IsDefined(victim) THEN "evicted" ELSE "stored",
                          Undefined)
                       EXCEPT !.victim = victim, !.args = Some([expiryMs |-> expiryMs])]
        /\ UNCHANGED <<config, hits, misses, now, nextSweep>>

\* a get() that leaves the timestamp of the entry it reads
GetKeepsTimestamp(key) ==
    LET startTime == now
    IN  IF ~MapHas(cache, key)
        THEN /\ misses' = misses + 1
             /\ last' = Op("get", key, "absent", Undefined)
             /\ UNCHANGED <<cache, born, hits, config, now, nextSweep>>
        ELSE
          LET entry == MapGet(cache, key)
          IN  IF ExpiredAtGet(entry, now)
              THEN /\ cache' = MapDelete(cache, key)
                   /\ born' = BornOf(cache', born)
                   /\ misses' = misses + 1
                   /\ last' = Op("get", key, "expired", Undefined)
                   /\ UNCHANGED <<hits, config, now, nextSweep>>
              ELSE
                LET decompressedEntry == IF TruthyBool(entry.compressed)
                                         THEN decompressEntry(entry) ELSE entry
                    accessTime        == now - startTime
                    touched == [decompressedEntry EXCEPT
                                  !.accessCount = decompressedEntry.accessCount + 1,
                                  !.lastAccessTime = now,
                                  !.totalAccessTime = decompressedEntry.totalAccessTime + accessTime]
                    saved   == IF adaptiveExpiryEnabled
                               THEN adjustExpiry(touched, defaultExpiryMs, now)
                               ELSE touched
                IN  /\ hits' = hits + 1
                    /\ cache' = MapSet(cache, key, saved)
                    /\ last' = Op("get", key, "hit", GetReturns(cache, now, key))
                    /\ UNCHANGED <<born, misses, config, now, nextSweep>>

\* get(key)
Get(key) ==
    LET startTime == now
    IN  IF ~MapHas(cache, key)
        THEN /\ misses' = misses + 1
             /\ last' = Op("get", key, "absent", Undefined)
             /\ UNCHANGED <<cache, born, hits, config, now, nextSweep>>
        ELSE
          LET entry == MapGet(cache, key)
          IN  IF ExpiredAtGet(entry, now)
              THEN /\ cache' = MapDelete(cache, key)
                   /\ born' = BornOf(cache', born)
                   /\ misses' = misses + 1
                   /\ last' = Op("get", key, "expired", Undefined)
                   /\ UNCHANGED <<hits, config, now, nextSweep>>
              ELSE
                LET decompressedEntry == IF TruthyBool(entry.compressed)
                                         THEN decompressEntry(entry) ELSE entry
                    accessTime        == now - startTime
                    touched == [decompressedEntry EXCEPT
                                  !.accessCount = decompressedEntry.accessCount + 1,
                                  !.lastAccessTime = now,
                                  !.totalAccessTime = decompressedEntry.totalAccessTime + accessTime,
                                  !.timestamp = now]
                    saved   == IF adaptiveExpiryEnabled
                               THEN adjustExpiry(touched, defaultExpiryMs, now)
                               ELSE touched
                IN  /\ hits' = hits + 1
                    /\ cache' = MapSet(cache, key, saved)
                    /\ last' = Op("get", key, "hit", GetReturns(cache, now, key))
                    /\ UNCHANGED <<born, misses, config, now, nextSweep>>

\* delete(key)
Delete(key) ==
    /\ cache' = MapDelete(cache, key)
    /\ born' = BornOf(cache', born)
    /\ last' = Op("delete", key, "-", Undefined)
    /\ UNCHANGED <<config, hits, misses, now, nextSweep>>

\* a clear() that forgets the counters
ClearKeepsCounters ==
    /\ cache' = <<>>
    /\ born' = <<>>
    /\ last' = Op("clear", "-", IF cache # <<>> /\ hits + misses > 0 THEN "emptied" ELSE "-",
                  Undefined)
    /\ UNCHANGED <<config, hits, misses, now, nextSweep>>

\* clear()
Clear ==
    /\ cache' = <<>>
    /\ born' = <<>>
    /\ hits' = 0
    /\ misses' = 0
    /\ last' = Op("clear", "-", IF cache # <<>> /\ hits + misses > 0 THEN "emptied" ELSE "-",
                  Undefined)
    /\ UNCHANGED <<config, now, nextSweep>>

\* a timer callback that also starts the counters afresh
SweepResetsCounters ==
    /\ now >= nextSweep
    /\ nextSweep' = nextSweep + ENHANCED_CACHE_EXPIRY_MS
    /\ cache' = cleanup(cache, now)
    /\ born' = BornOf(cache', born)
    /\ autoCompressionThreshold' =
         IF compressionEnabled /\ CompressionRatioIsLow(StatsOf(cache'))
         THEN Max(MinCompressionThreshold, autoCompressionThreshold \div 2)
         ELSE autoCompressionThreshold
    /\ hits' = 0
    /\ misses' = 0
    /\ last' = Op("sweep", "-", IF Len(cache') < Len(cache) THEN "removed" ELSE "-", Undefined)
    /\ UNCHANGED <<maxSize, defaultExpiryMs, compressionEnabled, adaptiveExpiryEnabled,
                   memoryMonitoringEnabled, now>>

\* the setInterval callback of the constructor
Sweep ==
    /\ now >= nextSweep
    /\ nextSweep' = nextSweep + ENHANCED_CACHE_EXPIRY_MS
    /\ cache' = cleanup(cache, now)
    /\ born' = BornOf(cache', born)
    /\ autoCompressionThreshold' =
         IF compressionEnabled /\ CompressionRatioIsLow(StatsOf(cache'))
         THEN Max(MinCompressionThreshold, autoCompressionThreshold \div 2)
         ELSE autoCompressionThreshold
    /\ last' = Op("sweep", "-", IF Len(cache') < Len(cache) THEN "removed" ELSE "-", Undefined)
    /\ UNCHANGED <<maxSize, defaultExpiryMs, compressionEnabled, adaptiveExpiryEnabled,
                   memoryMonitoringEnabled, hits, misses, now>>

\* setMaxSize(size)
SetMaxSize(size) ==
    /\ maxSize' = size
    /\ cache' = cleanup(cache, now)
    /\ born' = BornOf(cache', born)
    /\ last' = Op("setMaxSize", "-", "-", Undefined)
    /\ UNCHANGED <<defaultExpiryMs, compressionEnabled, adaptiveExpiryEnabled,
                   memoryMonitoringEnabled, autoCompressionThreshold,
                   hits, misses, now, nextSweep>>

\* setDefaultExpiry(expiryMs)
SetDefaultExpiry(expiryMs) ==
    /\ defaultExpiryMs' = expiryMs
    /\ last' = Op("setDefaultExpiry", "-", "-", Undefined)
    /\ UNCHANGED <<cache, born, maxSize, compressionEnabled, adaptiveExpiryEnabled,
                   memoryMonitoringEnabled, autoCompressionThreshold,
                   hits, misses, now, nextSweep>>

\* a setCompressionEnabled() that decompresses the stored entries when it switches off
SetCompressionEnabledRewrites(enabled) ==
    /\ compressionEnabled' = enabled
    /\ cache' = IF enabled THEN cache
                ELSE [i \in 1..Len(cache) |->
                        [key |-> cache[i].key, entry |-> decompressEntry(cache[i].entry)]]
    /\ last' = Op("setCompressionEnabled", "-", "-", Undefined)
    /\ UNCHANGED <<born, maxSize, defaultExpiryMs, adaptiveExpiryEnabled,
                   memoryMonitoringEnabled, autoCompressionThreshold,
                   hits, misses, now, nextSweep>>

\* setCompressionEnabled(enabled)
SetCompressionEnabled(enabled) ==
    /\ compressionEnabled' = enabled
    /\ last' = Op("setCompressionEnabled", "-", "-", Undefined)
    /\ UNCHANGED <<cache, born, maxSize, defaultExpiryMs, adaptiveExpiryEnabled,
                   memoryMonitoringEnabled, autoCompressionThreshold,
                   hits, misses, now, nextSweep>>

\* setAdaptiveExpiryEnabled(enabled)
SetAdaptiveExpiryEnabled(enabled) ==
    /\ adaptiveExpiryEnabled' = enabled
    /\ last' = Op("setAdaptiveExpiryEnabled", "-", "-", Undefined)
    /\ UNCHANGED <<cache, born, maxSize, defaultExpiryMs, compressionEnabled,
                   memoryMonitoringEnabled, autoCompressionThreshold,
                   hits, misses, now, nextSweep>>

\* setMemoryMonitoringEnabled(enabled)
SetMemoryMonitoringEnabled(enabled) ==
    /\ memoryMonitoringEnabled' = enabled
    /\ last' = Op("setMemoryMonitoringEnabled", "-", "-", Undefined)
    /\ UNCHANGED <<cache, born, maxSize, defaultExpiryMs, compressionEnabled,
                   adaptiveExpiryEnabled, autoCompressionThreshold,
                   hits, misses, now, nextSweep>>

\* setAutoCompressionThreshold(threshold)
SetAutoCompressionThreshold(threshold) ==
    /\ autoCompressionThreshold' = threshold
    /\ last' = Op("setAutoCompressionThreshold", "-", "-", Undefined)
    /\ UNCHANGED <<cache, born, maxSize, defaultExpiryMs, compressionEnabled,
                   adaptiveExpiryEnabled, memoryMonitoringEnabled,
                   hits, misses, now, nextSweep>>

\* The caller of set(key, value) or of an earlier get(key) assigns
\* files[path] = content on the FileMap it holds.  An entry stored uncompressed
\* holds that very object: set() stores value.contextFiles and get() returns
\* entry.contextFiles, neither copies.  A compressed entry holds its own wrapper.
CallerMutates(key, path, content) ==
    /\ MapHas(cache, key)
    /\ ~TruthyBool(MapGet(cache, key).compressed)
    /\ LET entry == MapGet(cache, key)
           files == entry.contextFiles
       IN  cache' = MapSet(cache, key,
                       [entry EXCEPT !.contextFiles =
                           [p \in DOMAIN files \cup {path} |->
                               IF p = path THEN content ELSE files[p]]])
    /\ last' = Op("mutate", key, "-", Undefined)
    /\ UNCHANGED <<born, config, hits, misses, now, nextSweep>>

-----------------------------------------------------------------------------
(* The management endpoint, POST /api/enhanced-context-cache, for its       *)
(* actions configure{maxSize?, expiryMs?} and set-compression-threshold     *)
(* {threshold}, and the form of the settings tab that sends them.           *)

\* a configure request that is applied whatever it carries
ConfigureRequestUnchecked(maxSizeArg, expiryArg) ==
    /\ maxSize' = IF IsDefined(maxSizeArg) THEN maxSizeArg[1] ELSE maxSize
    /\ cache' = IF IsDefined(maxSizeArg) THEN cleanup(cache, now) ELSE cache
    /\ born' = BornOf(cache', born)
    /\ defaultExpiryMs' = IF IsDefined(expiryArg) THEN expiryArg[1] ELSE defaultExpiryMs
    /\ last' = [Op("configure", "-", "applied", Undefined)
                   EXCEPT !.args = Some([maxSize |-> maxSizeArg, expiryMs |-> expiryArg])]
    /\ UNCHANGED <<compressionEnabled, adaptiveExpiryEnabled, memoryMonitoringEnabled,
                   autoCompressionThreshold, hits, misses, now, nextSweep>>

\* action configure: validate, then setMaxSize(maxSize) and setDefaultExpiry(expiryMs)
ConfigureRequest(maxSizeArg, expiryArg) ==
    IF (IsDefined(maxSizeArg) /\ maxSizeArg[1] <= 0) \/ (IsDefined(expiryArg) /\ expiryArg[1] <= 0)
    THEN /\ last' = [Op("configure", "-", "rejected", Undefined)
                        EXCEPT !.args = Some([maxSize |-> maxSizeArg, expiryMs |-> expiryArg])]
         /\ UNCHANGED <<cache, born, config, hits, misses, now, nextSweep>>
    ELSE /\ maxSize' = IF IsDefined(maxSizeArg) THEN maxSizeArg[1] ELSE maxSize
         /\ cache' = IF IsDefined(maxSizeArg) THEN cleanup(cache, now) ELSE cache
         /\ born' = BornOf(cache', born)
         /\ defaultExpiryMs' = IF IsDefined(expiryArg) THEN expiryArg[1] ELSE defaultExpiryMs
         /\ last' = [Op("configure", "-", "applied", Undefined)
                        EXCEPT !.args = Some([maxSize |-> maxSizeArg, expiryMs |-> expiryArg])]
         /\ UNCHANGED <<compressionEnabled, adaptiveExpiryEnabled, memoryMonitoringEnabled,
                        autoCompressionThreshold, hits, misses, now, nextSweep>>

\* action set-compression-threshold: validate, then setAutoCompressionThreshold(threshold)
SetCompressionThresholdRequest(threshold) ==
    IF threshold <= 0
    THEN /\ last' = [Op("set-compression-threshold", "-", "rejected", Undefined)
                        EXCEPT !.args = Some([threshold |-> Some(threshold)])]
         /\ UNCHANGED <<cache, born, config, hits, misses, now, nextSweep>>
    ELSE /\ autoCompressionThreshold' = threshold
         /\ last' = [Op("set-compression-threshold", "-", "applied", Undefined)
                        EXCEPT !.args = Some([threshold |-> Some(threshold)])]
         /\ UNCHANGED <<cache, born, maxSize, defaultExpiryMs, compressionEnabled,
                        adaptiveExpiryEnabled, memoryMonitoringEnabled,
                        hits, misses, now, nextSweep>>

\* the two Appliquer buttons: parseInt of the field (Undefined for NaN), then
\* configureCache(size, undefined) or configureCache(undefined, expiry) if it is positive
FormApply(field, parsed) ==
    IF IsDefined(parsed) /\ parsed[1] > 0
    THEN IF field = "maxSize" THEN ConfigureRequest(parsed, Undefined)
                              ELSE ConfigureRequest(Undefined, parsed)
    ELSE /\ last' = [Op("form", "-", "ignored", Undefined)
                        EXCEPT !.args = Some([maxSize  |-> IF field = "maxSize" THEN parsed ELSE Undefined,
                                              expiryMs |-> IF field = "maxSize" THEN Undefined ELSE parsed])]
         /\ UNCHANGED <<cache, born, config, hits, misses, now, nextSweep>>

\* the clock advances by ms between two operations
Advance(ms) ==
    /\ now' = now + ms
    /\ last' = Op("tick", "-", "-", Undefined)
    /\ UNCHANGED <<cache, born, config, hits, misses, nextSweep>>

Tick == now < MaxTicks * TickMs /\ Advance(TickMs)

\* a call A of the request pipeline, or a firing of the timer
Requested(A) == A /\ UNCHANGED <<configCalls, keyLog>>

\* a call A of the management endpoint
Managed(A) ==
    /\ configCalls < MaxConfigCalls
    /\ configCalls' = configCalls + 1
    /\ A
    /\ UNCHANGED keyLog

-----------------------------------------------------------------------------
(* The cache under its callers: the request pipeline (set, get), the       *)
(* management endpoint (the setters, clear) and the timer.                 *)

Keys == {"k1", "k2"}

MediumNoSummary ==
    [contextFiles |-> [p \in {"a.ts"} |-> "y.repeat(3000)"], summary |-> Undefined]

Values == {MediumNoSummary}

ExpiryArgs == {Undefined}

MaxSizes == {1}

DefaultExpiries == {TickMs}

Thresholds == {1024}

Next ==
    \/ \E k \in Keys, v \in Values, e \in ExpiryArgs : Requested(Set(k, v, e))
    \/ \E k \in Keys : hits + misses < MaxGets /\ Requested(Get(k))
    \/ \E k \in Keys : Requested(Delete(k))
    \/ Requested(Sweep)
    \/ Requested(Tick)
    \/ Managed(Clear)
    \/ \E n \in MaxSizes : Managed(SetMaxSize(n))
    \/ \E d \in DefaultExpiries : Managed(SetDefaultExpiry(d))
    \/ \E b \in BOOLEAN : Managed(SetCompressionEnabled(b))
    \/ \E b \in BOOLEAN : Managed(SetAdaptiveExpiryEnabled(b))
    \/ \E b \in BOOLEAN : Managed(SetMemoryMonitoringEnabled(b))
    \/ \E t \in Thresholds : Managed(SetAutoCompressionThreshold(t))

Spec == Init /\ [][Next]_vars

-----------------------------------------------------------------------------
(* The cache at capacity: three keys, entries that outlive a tick, and a    *)
(* maxSize of two.  The sweep that matters here is the one set() starts     *)
(* with; the timer is left to Spec.                                         *)

CapacityKeys == Keys \cup {"k3"}

LongExpiryArgs == {Some(2 * TickMs)}

CapacitySizes == {2}

NextCapacity ==
    \/ \E k \in CapacityKeys, v \in Values, e \in LongExpiryArgs : Requested(Set(k, v, e))
    \/ \E k \in CapacityKeys : hits + misses < MaxGets /\ Requested(Get(k))
    \/ \E k \in CapacityKeys : Requested(Delete(k))
    \/ Requested(Tick)
    \/ \E n \in CapacitySizes : Managed(SetMaxSize(n))

SpecCapacity == Init /\ [][NextCapacity]_vars

-----------------------------------------------------------------------------
(* The cache under repeated reads of one key: the clock moves in steps of   *)
(* a third of the default window, so that a read can find an entry that an  *)
(* earlier read has kept alive.  The management endpoint may lower the      *)
(* default window or switch the adaptive expiry.                            *)

AdaptiveKeys == {"k1"}

AdaptiveExpiries == {StepMs}

Step == now < AdaptiveMaxSteps * StepMs /\ Advance(StepMs)

NextAdaptive ==
    \/ \E k \in AdaptiveKeys, v \in Values, e \in ExpiryArgs : Requested(Set(k, v, e))
    \/ \E k \in AdaptiveKeys : hits + misses < AdaptiveMaxGets /\ Requested(Get(k))
    \/ Requested(Sweep)
    \/ Requested(Step)
    \/ \E d \in AdaptiveExpiries : Managed(SetDefaultExpiry(d))
    \/ \E b \in BOOLEAN : Managed(SetAdaptiveExpiryEnabled(b))

SpecAdaptive == Init /\ [][NextAdaptive]_vars

-----------------------------------------------------------------------------
(* The cache holding an entry that is flagged compressed and cannot be      *)
(* decompressed.  set() never stores such an entry: it is the state a test  *)
(* reaches by writing the entry into the private map, the case the error    *)
(* path of decompressEntry() is written for.                                *)

HealthyEntry == NewEntry(MediumNoSummary, ENHANCED_CACHE_EXPIRY_MS, 0)

CompressedEntry == compressEntry(HealthyEntry, TRUE, MinCompressionThreshold)

Deflated == fromBase64(CompressedEntry.contextFiles._compressed[1])

\* the contextFiles of a compressed entry, damaged in each way decompressEntry() tests for
CorruptContextFiles ==
    LET cf == CompressedEntry.contextFiles
    IN  { [cf EXCEPT !._compressed = Undefined],
          [cf EXCEPT !._compressed = Some([type |-> "number", bytes |-> Deflated])],
          [cf EXCEPT !._originalSize = Undefined],
          [cf EXCEPT !._compressed = Some(toBase64([Deflated EXCEPT !.type = "truncated"]))],
          [cf EXCEPT !._compressed =
              Some(toBase64([Deflated EXCEPT !.data = [type |-> "text", text |-> Deflated.data.text]]))] }

CorruptEntries == {[CompressedEntry EXCEPT !.contextFiles = cf] : cf \in CorruptContextFiles}

InitCorrupt ==
    /\ cache \in {<<[key |-> "k1", entry |-> e], [key |-> "k2", entry |-> HealthyEntry]>> :
                     e \in CorruptEntries}
    /\ maxSize = MAX_ENHANCED_CACHE_SIZE
    /\ defaultExpiryMs = ENHANCED_CACHE_EXPIRY_MS
    /\ hits = 0
    /\ misses = 0
    /\ compressionEnabled = TRUE
    /\ adaptiveExpiryEnabled = TRUE
    /\ memoryMonitoringEnabled = TRUE
    /\ autoCompressionThreshold = DEFAULT_COMPRESSION_THRESHOLD
    /\ now = 0
    /\ nextSweep = ENHANCED_CACHE_EXPIRY_MS
    /\ born = [k \in Keys |-> [at |-> 0, value |-> MediumNoSummary,
                                window |-> Some(ENHANCED_CACHE_EXPIRY_MS)]]
    /\ last = NoOp
    /\ configCalls = 0
    /\ keyLog = <<>>

NextCorrupt ==
    \/ \E k \in Keys, v \in Values, e \in ExpiryArgs : Requested(Set(k, v, e))
    \/ \E k \in Keys : hits + misses < MaxGets /\ Requested(Get(k))
    \/ \E k \in Keys : Requested(Delete(k))
    \/ Requested(Sweep)
    \/ Requested(Tick)

SpecCorrupt == InitCorrupt /\ [][NextCorrupt]_vars


-----------------------------------------------------------------------------
(* The cache under payloads of several sizes: one at the threshold the      *)
(* endpoint may set, one above the default threshold that deflate cannot    *)
(* shrink, one that the halved threshold of the timer reaches.              *)

Incompressible ==
    [contextFiles |-> [p \in {"r.bin"} |-> "random(20000)"], summary |-> Some("s")]

\* a payload that deflate shrinks by a twentieth
BarelyCompressible ==
    [contextFiles |-> [p \in {"n.log"} |-> "noisy(20000)"], summary |-> Undefined]

\* the payload of the end-to-end scenario: deflate makes almost nothing of it
LargeRepetitive ==
    [contextFiles |-> [p \in {"src/App.tsx"} |-> "X.repeat(20000)"], summary |-> Undefined]

CompressionKeys == {"k1"}

CompressionValues == {MediumNoSummary, Incompressible, BarelyCompressible, LargeRepetitive}

\* the lowest threshold the timer leaves, half of it, and the size of MediumNoSummary
CompressionThresholds ==
    {MinCompressionThreshold, MinCompressionThreshold \div 2,
     calculateSize(MediumNoSummary.contextFiles, Undefined)}

NextCompression ==
    \/ \E k \in CompressionKeys, v \in CompressionValues, e \in ExpiryArgs : Requested(Set(k, v, e))
    \/ \E k \in CompressionKeys : hits + misses < MaxGets /\ Requested(Get(k))
    \/ Requested(Sweep)
    \/ Requested(Tick)
    \/ \E b \in BOOLEAN : Managed(SetCompressionEnabled(b))
    \/ \E t \in CompressionThresholds : Managed(SetAutoCompressionThreshold(t))

SpecCompression == Init /\ [][NextCompression]_vars

-----------------------------------------------------------------------------
(* The cache under the management endpoint: requests that carry zero, a     *)
(* negative or a positive number, sent directly or through the form, while  *)
(* the pipeline stores entries that the clock lets expire.                  *)

RequestSizes == {Undefined, Some(0 - 1), Some(0), Some(1)}

RequestExpiries == {Undefined, Some(0 - TickMs), Some(0), Some(TickMs)}

RequestThresholds == {0 - 1, 0, MinCompressionThreshold}

NextManagement ==
    \/ \E k \in AdaptiveKeys, v \in Values, e \in ExpiryArgs : Requested(Set(k, v, e))
    \/ \E k \in AdaptiveKeys : hits + misses < MaxGets /\ Requested(Get(k))
    \/ Requested(Tick)
    \/ \E m \in RequestSizes, e \in RequestExpiries : Managed(ConfigureRequest(m, e))
    \/ \E t \in RequestThresholds : Managed(SetCompressionThresholdRequest(t))
    \/ \E f \in {"maxSize", "expiryMs"}, n \in RequestSizes : Managed(FormApply(f, n))

SpecManagement == Init /\ [][NextManagement]_vars

-----------------------------------------------------------------------------
(* The cache under a pipeline that goes on using the objects it passed to   *)
(* set and received from get.                                               *)

MutatedPaths == {"a.ts", "b.ts"}

MutatedContents == {"changed"}

NextAlias ==
    \/ \E k \in Keys, v \in Values, e \in ExpiryArgs : Requested(Set(k, v, e))
    \/ \E k \in Keys : hits + misses < MaxGets /\ Requested(Get(k))
    \/ \E k \in Keys : Requested(Delete(k))
    \/ Requested(Tick)
    \/ \E k \in Keys, p \in MutatedPaths, c \in MutatedContents : Requested(CallerMutates(k, p, c))

SpecAlias == Init /\ [][NextAlias]_vars

-----------------------------------------------------------------------------
(* The request pipeline computing keys: generateCacheKey is called with     *)
(* message-id lists of up to MaxMessageIds ids and with short file-path      *)
(* lists in which paths recur in another case, padded or in another order.  *)

\* the call generateCacheKey(params) of the pipeline, with its result; the
\* log keeps the call before it
GenerateCacheKey(params) ==
    /\ keyLog' = sliceLast(keyLog, 1) \o <<[params |-> params, key |-> generateCacheKey(params)]>>
    /\ last' = Op("generateCacheKey", "-", "-", Undefined)
    /\ UNCHANGED <<cache, born, config, hits, misses, now, nextSweep, configCalls>>

RECURSIVE SeqsUpTo(_, _)
SeqsUpTo(S, n) ==
    IF n = 0 THEN {<<>>}
    ELSE LET shorter == SeqsUpTo(S, n - 1)
         IN  shorter \cup {Append(q, x) : q \in {r \in shorter : Len(r) = n - 1}, x \in S}

PromptIds == {Undefined, Some(<<>>), Some(<<"p">>)}

MessageIdLists ==
    SeqsUpTo({<<"m">>, <<"n">>}, MaxMessageIds)
      \cup { <<<<>>, <<"m">>>>, <<<<" ">>, <<"m">>, <<"n">>>>, <<<<" ", "m">>, <<"n", " ">>>>,
             <<<<"m">>, <<"n">>, <<>>, <<" ">>>> }

FilePathLists ==
    SeqsUpTo({<<"a">>, <<"A">>, <<" ", "a">>, <<"b">>}, 2)
      \cup { <<<<>>, <<"b">>>>, <<<<"B", " ">>, <<"a">>>>, <<<<" ">>>>, <<<<"a", " ", "b">>>>,
             <<<<"b">>, <<"a", "b">>>> }

KeyParams ==
    {[promptId |-> p, messageIds |-> <<<<"m">>>>, filePaths |-> f] :
        p \in PromptIds, f \in FilePathLists}
      \cup {[promptId |-> Undefined, messageIds |-> ids, filePaths |-> f] :
                ids \in MessageIdLists, f \in {<<>>}}

NextKey == \E params \in KeyParams : GenerateCacheKey(params)

SpecKey == Init /\ [][NextKey]_vars

-----------------------------------------------------------------------------
(* The cache under sets that carry an expiry of their own: none, zero, the  *)
(* step of the clock, or a negative number.  An entry stored at time 0 with *)
(* the step of the clock as its expiry is, after one step, at its expiresAt *)
(* exactly.                                                                 *)

ExpiryOverrides == {Undefined, Some(0), Some(TickMs), Some(0 - StepMs)}

NextExpiry ==
    \/ \E k \in Keys, v \in Values, e \in ExpiryOverrides : Requested(Set(k, v, e))
    \/ \E k \in Keys : hits + misses < MaxGets /\ Requested(Get(k))
    \/ Requested(Sweep)
    \/ Requested(Tick)
    \/ \E n \in MaxSizes : Managed(SetMaxSize(n))

SpecExpiry == Init /\ [][NextExpiry]_vars

-----------------------------------------------------------------------------
(* The cache under a pipeline that reads one entry more often than the      *)
(* access factor of adjustExpiry() counts.                                  *)

NextFrequent ==
    \/ \E k \in AdaptiveKeys, v \in Values, e \in ExpiryArgs : Requested(Set(k, v, e))
    \/ \E k \in AdaptiveKeys : hits + misses < FrequentMaxGets /\ Requested(Get(k))
    \/ Requested(Step)
    \/ \E d \in AdaptiveExpiries : Managed(SetDefaultExpiry(d))
    \/ \E b \in BOOLEAN : Managed(SetAdaptiveExpiryEnabled(b))

SpecFrequent == Init /\ [][NextFrequent]_vars

-----------------------------------------------------------------------------
(* The cache under its timer.  setInterval runs the callback once every     *)
(* period for as long as the process lives, and the clock goes on: both are *)
(* weakly fair.  The step of the clock is longer than the period, so the    *)
(* callback is due after every step.                                        *)

NextTimer ==
    \/ \E k \in Keys, v \in Values, e \in ExpiryArgs : Requested(Set(k, v, e))
    \/ \E k \in Keys : hits + misses < MaxGets /\ Requested(Get(k))
    \/ \E k \in Keys : Requested(Delete(k))
    \/ Requested(Sweep)
    \/ Requested(Tick)
    \/ \E d \in DefaultExpiries : Managed(SetDefaultExpiry(d))

SpecTimer ==
    /\ Init /\ [][NextTimer]_vars
    /\ WF_vars(Requested(Sweep))
    /\ WF_vars(Requested(Tick))

-----------------------------------------------------------------------------
(* Properties *)

IsGet(k)  == last'.op = "get" /\ last'.key = k

IsSet(k)  == last'.op = "set" /\ last'.key = k

\* deep equality of two optional payloads {contextFiles, summary?}
SamePayload(a, b) ==
    /\ IsDefined(a) = IsDefined(b)
    /\ IsDefined(a) =>
          /\ DOMAIN a[1].contextFiles = DOMAIN b[1].contextFiles
          /\ \A path \in DOMAIN a[1].contextFiles :
                a[1].contextFiles[path] = b[1].contextFiles[path]
          /\ a[1].summary = b[1].summary

\* the entry of key k is in the map and has not expired
Live(k) == MapHas(cache, k) /\ ~(now > MapGet(cache, k).expiresAt)

StoredCompressed(k) == MapHas(cache, k) /\ TruthyBool(MapGet(cache, k).compressed)

AllSpaces(str) == \A i \in 1..Len(str) : str[i] = " "

SameLetter(x, y) == x = y \/ {x, y} \in {{"a", "A"}, {"b", "B"}}

\* a and b are one path, up to the case of its letters and the spaces around it
Alike(a, b) ==
    \E i1 \in 0..Len(a), i2 \in 0..Len(b) :
      \E j1 \in i1..Len(a), j2 \in i2..Len(b) :
        /\ AllSpaces(SubSeq(a, 1, i1)) /\ AllSpaces(SubSeq(a, j1 + 1, Len(a)))
        /\ AllSpaces(SubSeq(b, 1, i2)) /\ AllSpaces(SubSeq(b, j2 + 1, Len(b)))
        /\ j1 - i1 = j2 - i2
        /\ \A n \in 1..(j1 - i1) : SameLetter(a[i1 + n], b[i2 + n])

\* f and g list the same paths, in some order
PathsAlike(f, g) ==
    /\ Len(f) = Len(g)
    /\ \E pi \in Permutations(1..Len(f)) : \A i \in 1..Len(f) : Alike(f[i], g[pi[i]])

PromptAlike(p, q) == p = q \/ {p, q} \subseteq {Undefined, Some(<<>>)}

\* str without the spaces around it
Stripped(str) ==
    CHOOSE sub \in {SubSeq(str, i + 1, j) : i \in 0..Len(str), j \in 0..Len(str)} :
      /\ sub = <<>> \/ (sub[1] # " " /\ sub[Len(sub)] # " ")
      /\ \E i \in 0..Len(str) :
            /\ i + Len(sub) <= Len(str)
            /\ SubSeq(str, i + 1, i + Len(sub)) = sub
            /\ AllSpaces(SubSeq(str, 1, i))
            /\ AllSpaces(SubSeq(str, i + Len(sub) + 1, Len(str)))

\* the last three of the ids that are not blank, each without the spaces around it
RECURSIVE LastIds(_, _)
LastIds(ids, n) ==
    IF n = 0 \/ ids = <<>> THEN <<>>
    ELSE IF AllSpaces(ids[Len(ids)]) THEN LastIds(SubSeq(ids, 1, Len(ids) - 1), n)
    ELSE Append(LastIds(SubSeq(ids, 1, Len(ids) - 1), n - 1), Stripped(ids[Len(ids)]))

\* C11: two calls of generateCacheKey whose inputs differ only in the order of
\* filePaths, in the case or surrounding whitespace of paths, or in an omitted
\* against an empty promptId return one key; two calls whose trimmed last
\* three non-empty message ids differ return different keys.
C11_KeyNormalised ==
    \A i, j \in 1..Len(keyLog) :
       LET p == keyLog[i].params
           q == keyLog[j].params
       IN  /\ (/\ p.messageIds = q.messageIds
                /\ PromptAlike(p.promptId, q.promptId)
                /\ PathsAlike(p.filePaths, q.filePaths))
                  => keyLog[i].key = keyLog[j].key
           /\ LastIds(p.messageIds, 3) # LastIds(q.messageIds, 3)
                  => keyLog[i].key # keyLog[j].key

\* two calls that list two paths in opposite orders and another case, one with
\* no promptId and one with an empty one, have returned one key
C11_Witness ==
    /\ Len(keyLog) = 2
    /\ keyLog[1].params.promptId = Undefined /\ keyLog[2].params.promptId = Some(<<>>)
    /\ Len(keyLog[1].params.filePaths) = 2
    /\ PathsAlike(keyLog[1].params.filePaths, keyLog[2].params.filePaths)
    /\ ~Alike(keyLog[1].params.filePaths[1], keyLog[2].params.filePaths[1])
    /\ keyLog[1].params.filePaths[2] # keyLog[2].params.filePaths[1]
    /\ keyLog[1].key = keyLog[2].key

\* C12: the entry a set stores is compressed only if compression was enabled at
\* the set, the computed size of the payload was above the threshold and the
\* compressed size is below the computed size; otherwise the payload is stored
\* as it was given.
C12_CompressedOnlyIfWorthIt ==
    [][\A k \in CapacityKeys :
         IsSet(k) =>
           LET stored   == MapGet(cache', k)
               value    == born'[k].value
               computed == calculateSize(value.contextFiles, value.summary)
           IN  IF TruthyBool(stored.compressed)
               THEN /\ compressionEnabled
                    /\ computed > autoCompressionThreshold
                    /\ stored.size < computed
                    /\ stored.originalSize = Some(computed)
               ELSE /\ stored.contextFiles = value.contextFiles
                    /\ stored.summary = value.summary
                    /\ stored.size = computed]_vars

\* a set has just stored an entry compressed, smaller than its payload, after
\* the timer had lowered the threshold below the payload's size
C12_Witness ==
    /\ last.op = "set" /\ StoredCompressed(last.key)
    /\ MapGet(cache, last.key).size < MapGet(cache, last.key).originalSize[1]
    /\ autoCompressionThreshold = DEFAULT_COMPRESSION_THRESHOLD \div 2

\* the step is a configuration request that carries a number that is not positive
NonPositiveRequest ==
    /\ last'.op \in {"configure", "set-compression-threshold", "form"}
    /\ \E f \in DOMAIN last'.args[1] :
          IsDefined(last'.args[1][f]) /\ last'.args[1][f][1] <= 0

\* C13: a configuration request with a non-positive maxSize, expiry or
\* threshold leaves maxSize, defaultExpiryMs, the threshold, the other settings
\* and the stored entries as they were.
C13_NonPositiveRejected ==
    [][NonPositiveRequest => config' = config /\ cache' = cache]_vars

\* a configure request with maxSize 0 has just been answered and the map still
\* holds the expired entry that setMaxSize would have swept
C13_Witness ==
    /\ last.op = "configure"
    /\ last.args[1].maxSize = Some(0)
    /\ maxSize = MAX_ENHANCED_CACHE_SIZE
    /\ \E i \in 1..Len(cache) : now > cache[i].entry.expiresAt

\* C14: a caller's change of the value it gave to set, or of the object an
\* earlier get returned, does not change what a get of any key returns.
C14_NotExposedByReference ==
    [][last'.op = "mutate"
         => \A k \in CapacityKeys : GetReturns(cache', now', k) = GetReturns(cache, now, k)]_vars

\* C16: a get adds one to exactly one of hits and misses; set, delete, the
\* timer, the setters and every other step but clear leave both alone; no step
\* but clear lowers either.
C16_CountersCumulative ==
    [][/\ last'.op = "get"
            => \/ hits' = hits + 1 /\ misses' = misses
               \/ hits' = hits /\ misses' = misses + 1
       /\ last'.op \notin {"get", "clear"} => hits' = hits /\ misses' = misses
       /\ (hits' < hits \/ misses' < misses) => last'.op = "clear"]_vars

\* a hit and a miss have been counted and the timer has just run
C16_Witness == last.op = "sweep" /\ hits = 1 /\ misses = 1

\* some entry of the map has expired and the step removes it
RemovesExpired ==
    \E i \in 1..Len(cache) : now > cache[i].entry.expiresAt /\ ~MapHas(cache', cache[i].key)

\* C17: over a step that is not a clear and that removes an expired entry, the
\* accessCount and totalAccessTime that getStats() reports do not decrease.
C17_AccessCountSurvivesExpiry ==
    [][(last'.op # "clear" /\ RemovesExpired)
         => /\ getStats'.accessCount >= getStats.accessCount
            /\ getStats'.totalAccessTime >= getStats.totalAccessTime]_vars

\* C18: getStats().contextFiles is the set of the file paths of the payloads
\* of the entries in the map, compressed or not.
C18_StatsListFilePaths ==
    getStats.contextFiles = UNION {DOMAIN born[k].value.contextFiles : k \in MapKeys(cache)}

SetterOps ==
    {"setDefaultExpiry", "setCompressionEnabled", "setAdaptiveExpiryEnabled",
     "setAutoCompressionThreshold"}

\* the settings, each under the name of its setter
SettingOf(op) ==
    CASE op = "setMaxSize"                  -> <<maxSize>>
      [] op = "setDefaultExpiry"            -> <<defaultExpiryMs>>
      [] op = "setCompressionEnabled"       -> <<compressionEnabled>>
      [] op = "setAdaptiveExpiryEnabled"    -> <<adaptiveExpiryEnabled>>
      [] op = "setMemoryMonitoringEnabled"  -> <<memoryMonitoringEnabled>>
      [] op = "setAutoCompressionThreshold" -> <<autoCompressionThreshold>>

\* the size set() computes for a payload, and the size deflate makes of it
PayloadSize(value) == calculateSize(value.contextFiles, value.summary)

DeflatedSize(value) ==
    pakoDeflate(JSONstringify([contextFiles |-> value.contextFiles,
                               summary |-> IF TruthyString(value.summary)
                                           THEN value.summary[1] ELSE ""])).length

AllSetterOps == SetterOps \cup {"setMaxSize", "setMemoryMonitoringEnabled"}

\* C19: a call of setDefaultExpiry, setCompressionEnabled,
\* setAdaptiveExpiryEnabled or setAutoCompressionThreshold changes no stored
\* entry, neither counter and no setting but its own; and each set and get
\* goes by the settings in force when it runs: a set without override gives
\* expiresAt = now + defaultExpiryMs and compresses exactly when compression
\* is enabled and the size is above the threshold, a get extends expiresAt by
\* defaultExpiryMs when adaptive expiry is enabled and not at all otherwise.
C19_SettersOnlySetTheirOwn ==
    [][/\ last'.op \in SetterOps
            => /\ cache' = cache
               /\ hits' = hits /\ misses' = misses
               /\ \A op \in AllSetterOps \ {last'.op} : SettingOf(op)' = SettingOf(op)
       /\ \A k \in CapacityKeys :
            /\ (IsSet(k) /\ IsDefined(born'[k].window))
                  => /\ MapGet(cache', k).expiresAt = now + defaultExpiryMs
                     /\ TruthyBool(MapGet(cache', k).compressed)
                           = (/\ compressionEnabled
                              /\ PayloadSize(born'[k].value) > autoCompressionThreshold
                              /\ DeflatedSize(born'[k].value) < PayloadSize(born'[k].value))
            /\ (IsGet(k) /\ Live(k))
                  => MapGet(cache', k).expiresAt =
                        IF adaptiveExpiryEnabled
                        THEN Max(MapGet(cache, k).expiresAt,
                                 now + (defaultExpiryMs
                                          * Min(MapGet(cache, k).accessCount + 1, AccessFactorCap))
                                       \div AccessFactorCap)
                        ELSE MapGet(cache, k).expiresAt]_vars

\* compression has just been switched off and the map still holds an entry
\* that was stored compressed
C19_Witness ==
    /\ last.op = "setCompressionEnabled" /\ ~compressionEnabled
    /\ \E i \in 1..Len(cache) : TruthyBool(cache[i].entry.compressed)

\* C20: setMaxSize removes the expired entries and no other; the set that
\* follows brings the number of entries down to maxSize.
C20_ShrinkDefersEviction ==
    [][/\ last'.op = "setMaxSize" => cache' = cleanup(cache, now)
       /\ last'.op = "set" => Len(cache') <= maxSize]_vars

\* C21: the entry a set stores has expiresAt = now + expiryMs whenever an
\* expiryMs was passed, zero included, and now + defaultExpiryMs only when
\* none was passed; its accessCount and totalAccessTime are zero.
C21_OverrideDecidesExpiry ==
    [][\A k \in CapacityKeys :
         IsSet(k) =>
           LET stored   == MapGet(cache', k)
               override == last'.args[1].expiryMs
           IN  /\ stored.expiresAt =
                     now + (IF IsDefined(override) THEN override[1] ELSE defaultExpiryMs)
               /\ stored.accessCount = 0
               /\ stored.totalAccessTime = 0]_vars

\* C22: every entry of the map has an expiresAt that is not earlier than its
\* timestamp, the time it was stored or last read.
C22_ExpiresAfterTouch ==
    \A i \in 1..Len(cache) : cache[i].entry.expiresAt >= cache[i].entry.timestamp

\* C23: every entry of the map that is flagged compressed has an originalSize
\* and a size that is not above it; every entry whose flag is false or unset
\* holds the file map that set was given.
C23_CompressedEntriesShrunk ==
    \A i \in 1..Len(cache) :
       LET entry == cache[i].entry
           value == born[cache[i].key].value
       IN  IF entry.compressed = Some(TRUE)
           THEN /\ IsDefined(entry.originalSize)
                /\ entry.size <= entry.originalSize[1]
           ELSE entry.contextFiles = value.contextFiles

\* a get has just decompressed the entry that a set had stored compressed, and
\* the entry holds the file map of the set again
C23_Witness ==
    /\ last.op = "get" /\ last.branch = "hit"
    /\ MapGet(cache, last.key).compressed = Some(FALSE)
    /\ IsDefined(MapGet(cache, last.key).originalSize)
    /\ MapGet(cache, last.key).contextFiles = born[last.key].value.contextFiles

\* C24: the timer's callback and setMaxSize remove every entry with
\* now > expiresAt and leave every entry with expiresAt >= now in the map as
\* it was; a set removes every such entry of another key and leaves every
\* other entry as it was, but for the one it evicts; none of the three changes
\* hits or misses.  The callback is a step like any other, between any two
\* operations.
C24_SweepRemovesExactlyExpired ==
    [][/\ last'.op \in {"sweep", "setMaxSize"}
            => /\ \A i \in 1..Len(cache') : ~(now > cache'[i].entry.expiresAt)
               /\ MapKeys(cache') \subseteq MapKeys(cache)
               /\ \A i \in 1..Len(cache) :
                      cache[i].entry.expiresAt >= now
                        => /\ MapHas(cache', cache[i].key)
                           /\ MapGet(cache', cache[i].key) = cache[i].entry
               /\ hits' = hits /\ misses' = misses
       /\ last'.op = "set"
            => /\ \A i \in 1..Len(cache) :
                      (now > cache[i].entry.expiresAt /\ cache[i].key # last'.key)
                        => ~MapHas(cache', cache[i].key)
               /\ \A i \in 1..Len(cache) :
                      (/\ cache[i].entry.expiresAt >= now
                       /\ cache[i].key # last'.key
                       /\ (IsDefined(last'.victim) => last'.victim[1].key # cache[i].key))
                        => /\ MapHas(cache', cache[i].key)
                           /\ MapGet(cache', cache[i].key) = cache[i].entry
               /\ hits' = hits /\ misses' = misses]_vars

\* the timer has just removed an expired entry and kept one whose expiresAt
\* is the current time
C24_Witness ==
    /\ last.op = "sweep" /\ last.branch = "removed"
    /\ \E i \in 1..Len(cache) : cache[i].entry.expiresAt = now

\* the entries of the map m that are flagged compressed
FlaggedCompressed(m) == {i \in 1..Len(m) : m[i].entry.compressed = Some(TRUE)}

\* 1 - stored/original < 0.1 over the entries of m that are flagged compressed,
\* the ratio being 0 when there is none
SavingBelowTenth(m) ==
    LET original == Sum([i \in FlaggedCompressed(m) |-> m[i].entry.originalSize[1]])
        stored   == Sum([i \in FlaggedCompressed(m) |-> m[i].entry.size])
    IN  original = 0 \/ 10 * (original - stored) < original

\* C25: a run of the timer's callback, when compression is enabled and the
\* compression ratio over the compressed entries left in the map is below 0.1
\* or there is none, leaves half the threshold, or 1024 if the half is below
\* 1024; when compression is disabled or the ratio is 0.1 or more it leaves
\* the threshold as it was.
C25_SweepHalvesOnPoorRatio ==
    [][last'.op = "sweep"
         => IF compressionEnabled /\ SavingBelowTenth(cache')
            THEN IF autoCompressionThreshold >= 2 * 1024
                 THEN 2 * autoCompressionThreshold' = autoCompressionThreshold
                 ELSE autoCompressionThreshold' = 1024
            ELSE autoCompressionThreshold' = autoCompressionThreshold]_vars

\* the timer has just halved the default threshold over a map whose one
\* compressed entry is hardly smaller than its payload
C25_Witness ==
    /\ last.op = "sweep" /\ compressionEnabled
    /\ FlaggedCompressed(cache) # {} /\ SavingBelowTenth(cache)
    /\ 2 * autoCompressionThreshold = DEFAULT_COMPRESSION_THRESHOLD

\* C29: a run of the timer's callback never leaves a threshold above the one
\* it found.
C29_SweepNeverRaisesThreshold ==
    [][last'.op = "sweep" => autoCompressionThreshold' <= autoCompressionThreshold]_vars

\* C26: a get that finds its entry unexpired leaves expiresAt as it was when
\* adaptive expiry is disabled; when it is enabled it leaves the later of the
\* old expiresAt and now + defaultExpiryMs * min(n, 10) / 10, n being the
\* number of reads of the entry, this one included, and defaultExpiryMs the
\* setting at the time of the get.
C26_GetExtendsByAccessFactor ==
    [][\A k \in CapacityKeys :
         (IsGet(k) /\ Live(k))
           => LET old   == MapGet(cache, k)
                  n     == old.accessCount + 1
                  tenths == IF n < 10 THEN n ELSE 10
                  target == now + (defaultExpiryMs * tenths) \div 10
              IN  /\ MapGet(cache', k).accessCount = n
                  /\ MapGet(cache', k).expiresAt =
                        IF ~adaptiveExpiryEnabled THEN old.expiresAt
                        ELSE IF old.expiresAt >= target THEN old.expiresAt ELSE target]_vars

\* the eleventh read of an entry has just extended its expiresAt by the whole
\* default window, and no more
C26_Witness ==
    /\ last.op = "get" /\ last.branch = "hit" /\ adaptiveExpiryEnabled
    /\ MapGet(cache, last.key).accessCount > AccessFactorCap
    /\ MapGet(cache, last.key).expiresAt = now + defaultExpiryMs
    /\ now > born[last.key].at

\* C27: a get that finds its entry unexpired sets the entry's timestamp to
\* the time of the read; and a set that evicts does not evict an entry that
\* has been read while another unexpired entry has a timestamp earlier than
\* that read.
C27_ReadProtectsFromEviction ==
    [][\A k \in CapacityKeys :
         /\ (IsGet(k) /\ Live(k)) => MapGet(cache', k).timestamp = now
         /\ (/\ last'.op = "set" /\ last'.branch = "evicted"
             /\ Live(k) /\ MapGet(cache, k).accessCount > 0
             /\ \E j \in CapacityKeys \ {k} :
                   Live(j) /\ MapGet(cache, j).timestamp < MapGet(cache, k).lastAccessTime)
               => last'.victim[1].key # k]_vars

\* k1 and k2 were stored, k1 was read later, and the set of a third key has
\* just evicted k2 and kept k1
C27_Witness ==
    /\ last.op = "set" /\ last.branch = "evicted" /\ last.key = "k3"
    /\ last.victim[1].key = "k2"
    /\ MapKeys(cache) = {"k1", "k3"}
    /\ cache[1].key = "k1" /\ cache[1].entry.accessCount = 1
    /\ cache[1].entry.timestamp > last.victim[1].timestamp

\* C28: a set of a key that is in the map leaves every unexpired entry of
\* another key in the map, and leaves no fewer entries than were unexpired
\* before it, whether the map is at capacity or not.
C28_ReplaceKeepsOthers ==
    [][\A k \in CapacityKeys :
         (IsSet(k) /\ MapHas(cache, k))
           => /\ \A j \in CapacityKeys \ {k} : Live(j) => MapHas(cache', j)
              /\ Len(cache') >= Cardinality({j \in CapacityKeys : Live(j)})]_vars

\* the map holds an entry of key k whose expiresAt has passed
ExpiredInMap(k) == MapHas(cache, k) /\ now > MapGet(cache, k).expiresAt

\* C30: while the clock and the timer go on, an entry whose expiresAt has
\* passed does not stay in the map: it is removed (by the timer, if nothing
\* reads or replaces it first).
C30_ExpiredEventuallyRemoved ==
    \A k \in Keys : ExpiredInMap(k) ~> ~ExpiredInMap(k)

\* the timer has just removed the entries of a map that nothing had read
C30_Witness ==
    /\ last.op = "sweep" /\ last.branch = "removed"
    /\ cache = <<>> /\ hits = 0 /\ misses = 0

\* C1: the number of entries the map holds never exceeds maxSize.
C1_SizeWithinMax == Len(cache) <= maxSize

\* C2: a set of a key that is not in the map, when the map holds maxSize entries
\* after the sweep, removes exactly one of them, one whose timestamp is
\* minimal, and leaves maxSize entries.
C2_EvictsOneOldest ==
    [][\A k \in CapacityKeys :
         (IsSet(k) /\ ~MapHas(cache, k) /\ Len(cleanup(cache, now)) = maxSize)
           => LET swept   == cleanup(cache, now)
                  removed == MapKeys(swept) \ MapKeys(cache')
              IN  /\ Cardinality(removed) = 1
                  /\ \A r \in removed, j \in MapKeys(swept) :
                        MapGet(swept, r).timestamp <= MapGet(swept, j).timestamp
                  /\ Len(cache') = maxSize
                  /\ MapHas(cache', k)]_vars

\* a set of a third key has just evicted, from a full map of two, the entry
\* older than the one it kept
C2_Witness ==
    /\ last.op = "set" /\ last.branch = "evicted"
    /\ maxSize = 2 /\ Len(cache) = 2
    /\ cache[2].key = last.key
    /\ last.victim[1].key \notin MapKeys(cache)
    /\ last.victim[1].timestamp < cache[1].entry.timestamp

\* C3: a get(key) of an entry whose expiresAt is earlier than the current time
\* returns absent, adds one to misses, leaves hits alone and removes the entry.
C3_ExpiredGetIsMiss ==
    [][\A k \in CapacityKeys :
         (IsGet(k) /\ MapHas(cache, k) /\ MapGet(cache, k).expiresAt < now)
           => /\ last'.returned = Undefined
              /\ misses' = misses + 1
              /\ hits' = hits
              /\ ~MapHas(cache', k)
              /\ \A j \in Keys \ {k} : MapHas(cache', j) = MapHas(cache, j)]_vars

\* a get has just found an expired entry that no sweep had removed
C3_Witness == last.op = "get" /\ last.branch = "expired" /\ misses > 0

\* C4: a get(k) of a key with no entry returns absent, adds one to misses and
\* changes nothing else; a get(k) of an entry that set(k, v) stored and that has
\* not expired returns a value equal to v, adds one to hits and leaves misses.
C4_MissThenHit ==
    [][\A k \in CapacityKeys :
         /\ (IsGet(k) /\ ~MapHas(cache, k))
               => /\ last'.returned = Undefined
                  /\ misses' = misses + 1
                  /\ <<cache, hits, config>>' = <<cache, hits, config>>
         /\ (IsGet(k) /\ Live(k))
               => /\ SamePayload(last'.returned, Some(born[k].value))
                  /\ hits' = hits + 1
                  /\ misses' = misses]_vars

\* the entry of key k is flagged compressed and decompressEntry() cannot restore it
Corrupt(k) ==
    /\ MapHas(cache, k)
    /\ TruthyBool(MapGet(cache, k).compressed)
    /\ ~Decompresses(MapGet(cache, k))

C6_CompressionRoundTrip ==
    [][\A k \in CapacityKeys :
         (IsGet(k) /\ Live(k) /\ StoredCompressed(k))
           => SamePayload(last'.returned, Some(born[k].value))]_vars

\* C7: after set has stored one entry compressed and one get has read it,
\* getStats() reports hits = 1 and compressedEntries = 1.
C7_ReadKeepsCompressedCount ==
    [][\A k \in CapacityKeys :
         (IsGet(k) /\ Live(k) /\ StoredCompressed(k) /\ Len(cache) = 1 /\ hits = 0)
           => /\ getStats'.hits = 1
              /\ getStats'.compressedEntries = 1]_vars

\* C8: with adaptive expiry enabled a get never lowers the expiresAt of the
\* entry it reads, and no step other than a set of the key lowers it between
\* two gets, whatever defaultExpiryMs becomes.
C8_ExpiryNeverDecreases ==
    [][\A k \in CapacityKeys :
         /\ (IsGet(k) /\ Live(k) /\ adaptiveExpiryEnabled)
               => /\ MapHas(cache', k)
                  /\ MapGet(cache', k).expiresAt >= MapGet(cache, k).expiresAt
         /\ (MapHas(cache, k) /\ MapHas(cache', k) /\ ~IsSet(k))
               => MapGet(cache', k).expiresAt >= MapGet(cache, k).expiresAt]_vars

\* a get under adaptive expiry has just kept an expiresAt later than the time
\* its own extension asked for
C8_Witness ==
    /\ last.op = "get" /\ last.branch = "hit" /\ adaptiveExpiryEnabled
    /\ MapHas(cache, last.key)
    /\ LET entry == MapGet(cache, last.key)
       IN  entry.expiresAt >
             now + (defaultExpiryMs * Min(entry.accessCount, AccessFactorCap)) \div AccessFactorCap

\* C9, as stated: an entry stored at time t0 with the default window D never
\* has an expiresAt later than t0 + 2*D.
C9_CappedAtTwiceBase ==
    \A k \in MapKeys(cache) :
        IsDefined(born[k].window)
          => MapGet(cache, k).expiresAt <= born[k].at + 2 * born[k].window[1]

\* C9, amended: the extension is capped for each read, not for the life of the
\* entry: a get at time now leaves expiresAt no later than the later of the old
\* expiresAt and now + defaultExpiryMs.
C9_CappedPerRead ==
    [][\A k \in CapacityKeys :
         (IsGet(k) /\ Live(k))
           => /\ MapHas(cache', k)
              /\ MapGet(cache', k).expiresAt
                    <= Max(MapGet(cache, k).expiresAt, now + defaultExpiryMs)]_vars

\* repeated gets, under an unchanged default window, have just carried an
\* entry's expiresAt past twice the window it was stored with
C9_Witness ==
    /\ last.op = "get" /\ last.branch = "hit" /\ adaptiveExpiryEnabled
    /\ MapHas(cache, last.key)
    /\ born[last.key].window = Some(defaultExpiryMs)
    /\ MapGet(cache, last.key).expiresAt > born[last.key].at + 2 * defaultExpiryMs

\* C10: after clear() the cache is empty, hits and misses are zero, every key
\* reads as absent, and the configuration is what it was.
C10_ClearResets ==
    [][last'.op = "clear"
         => /\ getStats'.size = 0
            /\ getStats'.hits = 0
            /\ getStats'.misses = 0
            /\ \A k \in CapacityKeys : GetReturns(cache', now', k) = Undefined
            /\ config' = config]_vars

\* a clear has just emptied a cache that had entries and counts
C10_Witness ==
    last.op = "clear" /\ last.branch = "emptied" /\ cache = <<>> /\ hits = 0 /\ misses = 0

====
